---- MODULE Spec2Model ----
(***************************************************************************)
(* Model of src/app.py: the USPS carrier strategy, the Fetch facade, the   *)
(* Database singleton and the App poll loop.                               *)
(*                                                                         *)
(* Strings that the code inspects character by character (the delivery     *)
(* service identifier, the database file name, the scraped texts) are      *)
(* sequences of one-character strings.                                     *)
(***************************************************************************)
EXTENDS Integers, Sequences, FiniteSets, TLC

(***************************************************************************)
(* Bounds of the model.                                                    *)
(***************************************************************************)
MaxCycles == 2
MaxConstructions == 2

(***************************************************************************)
(* Program constants.                                                      *)
(***************************************************************************)
sleep == 900
ext == <<".", "d", "b">>

(***************************************************************************)
(* Inputs: process configuration, arguments, and what the network returns. *)
(***************************************************************************)
TrackingNumbers == {"9400100000000000000000"}
DbNames ==
  { <<"a", ".", "d", "b">>, <<"b", ".", "d", "b">>, <<"a", "d", "b">> }
DeliveryServices ==
  { <<"u", "s", "p", "s">>, <<"U", "S">>, <<"u", "S", "A">>, <<"f", "e", "d", "e", "x">>,
    <<"u">>, <<"b", "u", "s">>, << >> }
Statuses == {200, 304, 404, 500}
Markers == {"banner-content", "tb-status", "tb-status-detail", "tb-location", "tb-date"}
PageTexts == { <<"A">>, <<" ", "A", "\n", " ", "B", " ">> }
\* the well-formed page, the pages that lack one element, and the page that has none
Absent == { {} } \cup { {m} : m \in Markers } \cup { Markers }
Pages == { [m \in Markers \ X |-> t] : X \in Absent, t \in PageTexts }
Lateness == {0, 45}

(***************************************************************************)
(* Text helpers: str.strip, re.findall(r'\S+', s), " ".join, endswith,     *)
(* re.match(r"^us", s, re.IGNORECASE).                                     *)
(***************************************************************************)
IsSpace(c) == c \in {" ", "\n", "\t"}

RECURSIVE lstrip(_)
lstrip(s) == IF s = << >> THEN s
             ELSE IF IsSpace(Head(s)) THEN lstrip(Tail(s)) ELSE s

RECURSIVE rstrip(_)
rstrip(s) == IF s = << >> THEN s
             ELSE IF IsSpace(s[Len(s)]) THEN rstrip(SubSeq(s, 1, Len(s) - 1)) ELSE s

strip(s) == rstrip(lstrip(s))

\* re.findall(r'\S+', s): the maximal runs of non-space characters, in order
RECURSIVE findall_nonspace(_, _)
findall_nonspace(s, run) ==
  IF s = << >> THEN (IF run = << >> THEN << >> ELSE <<run>>)
  ELSE IF IsSpace(Head(s))
       THEN (IF run = << >> THEN << >> ELSE <<run>>) \o findall_nonspace(Tail(s), << >>)
       ELSE findall_nonspace(Tail(s), Append(run, Head(s)))

RECURSIVE join(_, _)
join(sep, parts) ==
  IF parts = << >> THEN << >>
  ELSE IF Len(parts) = 1 THEN parts[1]
  ELSE parts[1] \o sep \o join(sep, Tail(parts))

endswith(s, suffix) ==
  /\ Len(s) >= Len(suffix)
  /\ SubSeq(s, Len(s) - Len(suffix) + 1, Len(s)) = suffix

IgnoreCaseEq(c, lower) ==
  \/ c = lower
  \/ (lower = "u" /\ c = "U")
  \/ (lower = "s" /\ c = "S")

\* faulty variant: the match without re.IGNORECASE
re_match_us_casesensitive(s) ==
  /\ Len(s) >= 2
  /\ s[1] = "u"
  /\ s[2] = "s"

re_match_us(s) ==
  /\ Len(s) >= 2
  /\ IgnoreCaseEq(s[1], "u")
  /\ IgnoreCaseEq(s[2], "s")

\* datetime.utcnow().strftime("%Y-%m-%d %H:%M"): the clock (seconds) cut to the minute
strftime(seconds) == seconds \div 60

(***************************************************************************)
(* Errors.                                                                 *)
(***************************************************************************)
NoError == [type |-> "", msg |-> "", code |-> 0]
Error(t, m, c) == [type |-> t, msg |-> m, code |-> c]

(***************************************************************************)
(* USPS (FetchStrategy)                                                    *)
(***************************************************************************)
\* requests.Response.ok: the status is not a 4xx or 5xx
ok(status) == ~(400 <= status /\ status < 600)

\* faulty variant: the response returned without the response.ok test
USPS_get_unchecked(status, page) ==
  [raised |-> FALSE, error |-> NoError, text |-> page]

\* USPS.get: the outcome of the GET given what the server answers
USPS_get(status, page) ==
  IF ~ok(status)
  THEN [raised |-> TRUE, error |-> Error("Exception", "Error: ", status), text |-> << >>]
  ELSE [raised |-> FALSE, error |-> NoError, text |-> page]

NoUSPS == [_tracking_number |-> "", soup |-> << >>, responseCycle |-> 0]

\* soup.find("p", {"class": marker}) is None
find_is_None(soup, marker) == marker \notin DOMAIN soup

parse_content(soup) == strip(soup["banner-content"])
parse_status(soup) == strip(soup["tb-status"])
parse_detail(soup) == strip(soup["tb-status-detail"])
parse_location(soup) == strip(soup["tb-location"])
parse_last_seen(soup) == join(<<" ">>, findall_nonspace(strip(soup["tb-date"]), << >>))

\* USPS.data raises AttributeError when one of the five elements is absent
data_raises(u) == \E m \in Markers : find_is_None(u.soup, m)

USPS_data(u) ==
  [tracking_number |-> u._tracking_number,
   content |-> parse_content(u.soup),
   status |-> parse_status(u.soup),
   detail |-> parse_detail(u.soup),
   location |-> parse_location(u.soup),
   last_seen |-> parse_last_seen(u.soup)]

NoData ==
  [tracking_number |-> "", content |-> << >>, status |-> << >>, detail |-> << >>,
   location |-> << >>, last_seen |-> << >>]

(***************************************************************************)
(* Database                                                                *)
(***************************************************************************)
\* the singleton and the connections it has opened, as one value
NoInstance == [created |-> FALSE, name |-> << >>, conn |-> 0]

\* Database(name, sql): __new__ then __init__ on the instance __new__ returns
Database_call(name, d, cs, runs) ==
  LET inst == IF ~d.created THEN [d EXCEPT !.created = TRUE] ELSE d
  IN IF ~endswith(name, ext)
     THEN [raised |-> TRUE, db |-> inst, conns |-> cs, schemaRuns |-> runs]
     ELSE [raised |-> FALSE,
           db |-> [inst EXCEPT !.name = name, !.conn = Len(cs) + 1],
           conns |-> Append(cs, [file |-> name, open |-> TRUE]),
           schemaRuns |-> runs + 1]

\* Database.__exit__: self.conn.close()
Database__exit__(d, cs) == [cs EXCEPT ![d.conn].open = FALSE]

\* faulty variant: the row stays written when the statement fails
insert_partial(st, file, row, succeeds) ==
  [st EXCEPT ![file] = Append(@, row)]

\* Database.insert on an open connection: the statement either commits one row
\* or fails, and a failed statement is rolled back
insert(st, file, row, succeeds) ==
  IF succeeds THEN [st EXCEPT ![file] = Append(@, row)] ELSE st

(***************************************************************************)
(* State                                                                   *)
(***************************************************************************)
VARIABLES
  env,              \* process configuration (.env): TRACKING_NUMBER, DB_NAME
  pc,               \* position of the program: App construction and App.run
  delivery_service, \* argument of App(...)
  usps,             \* App.delivery_service, the USPS instance
  data,             \* local variable data of App.run
  db,               \* Database.instance and its attributes name, conn
  conns,            \* sqlite3 connections opened so far
  store,            \* rows of each database file
  schemaRuns,       \* number of schema statements executed
  closes,           \* number of conn.close() calls
  constructions,    \* number of Database(...) calls
  httpCount,        \* number of HTTP GETs issued
  httpStatus,       \* status of the last HTTP response
  cycle,            \* iteration of the while loop of App.run
  clock,            \* UTC time in seconds
  error             \* the exception that propagated, if any

vars == <<env, pc, delivery_service, usps, data, db, conns, store, schemaRuns, closes,
          constructions, httpCount, httpStatus, cycle, clock, error>>

Init ==
  /\ env \in [TRACKING_NUMBER : TrackingNumbers, DB_NAME : DbNames]
  /\ pc = "start"
  /\ delivery_service = << >>
  /\ usps = NoUSPS
  /\ data = NoData
  /\ db = NoInstance
  /\ conns = << >>
  /\ store = [n \in DbNames |-> << >>]
  /\ schemaRuns = 0
  /\ closes = 0
  /\ constructions = 0
  /\ httpCount = 0
  /\ httpStatus = 0
  /\ cycle = 0
  /\ clock = 0
  /\ error = NoError

(***************************************************************************)
(* App.__init__(delivery_service): the whole constructor.  The carrier is   *)
(* chosen first, USPS() issues the GET and parses the page, then the       *)
(* Database is constructed inside a with block whose exit closes it.       *)
(***************************************************************************)
App__init__(ds, status, page) ==
  /\ pc = "start"
  /\ delivery_service' = ds
  /\ UNCHANGED <<env, data, store, cycle, clock>>
  /\ IF ~re_match_us(ds)
     THEN /\ error' = Error("ValueError", "Delivery Service is not supported.", 0)
          /\ pc' = "init_failed"
          /\ UNCHANGED <<usps, db, conns, schemaRuns, closes, constructions,
                         httpCount, httpStatus>>
     ELSE LET r == USPS_get(status, page)
          IN /\ httpCount' = httpCount + 1
             /\ httpStatus' = status
             /\ IF r.raised
                THEN /\ error' = r.error
                     /\ pc' = "init_failed"
                     /\ UNCHANGED <<usps, db, conns, schemaRuns, closes, constructions>>
                ELSE LET c == Database_call(env.DB_NAME, db, conns, schemaRuns)
                     IN /\ usps' = [_tracking_number |-> env.TRACKING_NUMBER,
                                    soup |-> r.text,
                                    responseCycle |-> cycle]
                        /\ constructions' = constructions + 1
                        /\ db' = c.db
                        /\ schemaRuns' = c.schemaRuns
                        /\ IF c.raised
                           THEN /\ error' = Error("ValueError", "must end with .db", 0)
                                /\ pc' = "init_failed"
                                /\ conns' = c.conns
                                /\ closes' = closes
                           ELSE /\ error' = NoError
                                /\ pc' = "constructed"
                                /\ conns' = Database__exit__(c.db, c.conns)
                                /\ closes' = closes + 1

(***************************************************************************)
(* Database(name, sql) called by other code of the process: before the App *)
(* is constructed, before run() is started, or while the loop is asleep.   *)
(* The exception of a bad name is the caller's, not the loop's.            *)
(***************************************************************************)
Database__init__(name) ==
  /\ pc \in {"start", "constructed", "sleep"}
  /\ constructions < MaxConstructions
  /\ LET c == Database_call(name, db, conns, schemaRuns)
     IN /\ db' = c.db
        /\ conns' = c.conns
        /\ schemaRuns' = c.schemaRuns
  /\ constructions' = constructions + 1
  /\ UNCHANGED <<env, pc, delivery_service, usps, data, store, closes, httpCount,
                 httpStatus, cycle, clock, error>>

(***************************************************************************)
(* App.run                                                                 *)
(***************************************************************************)
\* asyncio starts the coroutine: the first iteration of while True
run_start ==
  /\ pc = "constructed"
  /\ pc' = "cycle"
  /\ cycle' = 1
  /\ UNCHANGED <<env, delivery_service, usps, data, db, conns, store, schemaRuns, closes,
                 constructions, httpCount, httpStatus, clock, error>>

\* fetch = Fetch(self.delivery_service); data = fetch.data(); the report
run_fetch_data ==
  /\ pc = "cycle"
  /\ IF data_raises(usps)
     THEN /\ error' = Error("AttributeError", "'NoneType' object has no attribute 'text'", 0)
          /\ pc' = "terminated"
          /\ data' = data
     ELSE /\ data' = USPS_data(usps)
          /\ pc' = "save"
          /\ error' = error
  /\ UNCHANGED <<env, delivery_service, usps, db, conns, store, schemaRuns, closes,
                 constructions, httpCount, httpStatus, cycle, clock>>

\* faulty variant: the next iteration starts without awaiting the sleep
run_save_data_nosleep(succeeds) ==
  /\ pc = "save"
  /\ LET row == [data |-> data, date |-> strftime(clock)]
     IN IF ~conns[db.conn].open
        THEN /\ error' = Error("ProgrammingError", "Cannot operate on a closed database.", 0)
             /\ pc' = "terminated"
             /\ UNCHANGED <<store, cycle>>
        ELSE /\ store' = insert(store, conns[db.conn].file, row, succeeds)
             /\ IF succeeds
                THEN /\ cycle < MaxCycles
                     /\ pc' = "cycle"
                     /\ cycle' = cycle + 1
                     /\ error' = error
                ELSE /\ error' = Error("OperationalError", "", 0)
                     /\ pc' = "terminated"
                     /\ cycle' = cycle
  /\ UNCHANGED <<env, delivery_service, usps, data, db, conns, schemaRuns, closes,
                 constructions, httpCount, httpStatus, clock>>

\* self.save_data(data); the announcement; await asyncio.sleep(self.sleep) begins
run_save_data(succeeds) ==
  /\ pc = "save"
  /\ LET row == [data |-> data, date |-> strftime(clock)]
     IN IF ~conns[db.conn].open
        THEN /\ error' = Error("ProgrammingError", "Cannot operate on a closed database.", 0)
             /\ pc' = "terminated"
             /\ store' = store
        ELSE /\ store' = insert(store, conns[db.conn].file, row, succeeds)
             /\ IF succeeds
                THEN /\ pc' = "sleep"
                     /\ error' = error
                ELSE /\ error' = Error("OperationalError", "", 0)
                     /\ pc' = "terminated"
  /\ UNCHANGED <<env, delivery_service, usps, data, db, conns, schemaRuns, closes,
                 constructions, httpCount, httpStatus, cycle, clock>>

\* asyncio.sleep(self.sleep) completes; while True starts the next iteration
run_sleep_done(late) ==
  /\ pc = "sleep"
  /\ cycle < MaxCycles
  /\ clock' = clock + sleep + late
  /\ cycle' = cycle + 1
  /\ pc' = "cycle"
  /\ UNCHANGED <<env, delivery_service, usps, data, db, conns, store, schemaRuns, closes,
                 constructions, httpCount, httpStatus, error>>

Next ==
  \/ \E ds \in DeliveryServices, status \in Statuses, page \in Pages :
       App__init__(ds, status, page)
  \/ \E name \in DbNames : Database__init__(name)
  \/ run_start
  \/ run_fetch_data
  \/ \E succeeds \in BOOLEAN : run_save_data(succeeds)
  \/ \E late \in Lateness : run_sleep_done(late)

Spec == Init /\ [][Next]_vars

RECURSIVE CountRows(_, _)
CountRows(st, names) ==
  IF names = {} THEN 0
  ELSE LET n == CHOOSE x \in names : TRUE
       IN Len(st[n]) + CountRows(st, names \ {n})

\* number of rows in all database files
TotalRows == CountRows(store, DbNames)

(***************************************************************************)
(* Properties                                                              *)
(***************************************************************************)

\* C1: the snapshot taken in cycle n is read from a parse tree built from a
\* response fetched during cycle n, so every cycle has issued its own HTTP GET.
C1_FreshFetchEachCycle ==
  pc = "save" => (usps.responseCycle = cycle /\ httpCount >= cycle)

\* C2: after App construction, a cycle whose fetch and five parse operations
\* succeed (and whose store does not reject the statement) adds exactly one row,
\* holding the snapshot and the save-time date stamp.
C2_OneRowPerCycle ==
  [][(pc = "save" /\ pc' # "save" /\ error'.type # "OperationalError")
       => /\ TotalRows' = TotalRows + 1
          /\ \E n \in DbNames :
               /\ Len(store'[n]) = Len(store[n]) + 1
               /\ store'[n][Len(store'[n])] = [data |-> data, date |-> clock \div 60]]_vars

\* C3: the store connection is closed exactly once, when the poll loop
\* terminates: it is open while the loop can still run a cycle, it is closed
\* once the loop has terminated, and it is never closed twice.
C3_ReleasedOnceAtTermination ==
  /\ closes <= 1
  /\ pc \in {"constructed", "cycle", "save", "sleep"} => conns[db.conn].open
  /\ pc = "terminated" => (~conns[db.conn].open /\ closes = 1)

\* C4: a construction of the Database after one that succeeded leaves the
\* instance as it was: same name, same connection, no new connection opened
\* and no schema statement executed.
C4_SecondConstructionIgnored ==
  [][(constructions' = constructions + 1 /\ db.conn # 0)
       => /\ db'.name = db.name
          /\ db'.conn = db.conn
          /\ Len(conns') = Len(conns)
          /\ schemaRuns' = schemaRuns]_vars

C6_UnsupportedCarrier ==
  [][(pc = "start" /\ pc' # "start")
       => IF /\ Len(delivery_service') >= 2
             /\ SubSeq(delivery_service', 1, 2) \in
                  { <<"u", "s">>, <<"U", "s">>, <<"u", "S">>, <<"U", "S">> }
          THEN httpCount' = httpCount + 1
          ELSE /\ error'.type = "ValueError"
               /\ pc' = "init_failed"
               /\ httpCount' = httpCount
               /\ UNCHANGED <<usps, db, conns, store, schemaRuns, constructions>>]_vars

C6_Witness ==
  /\ pc = "init_failed"
  /\ delivery_service = <<"f", "e", "d", "e", "x">>
  /\ error.type = "ValueError"
  /\ httpCount = 0
  /\ conns = << >>

\* C7: a step of a poll cycle that raises leaves every row of the store as it
\* was and terminates the loop; the terminated loop holds one row per earlier
\* cycle and none for the failed one, and it never runs again.
C7_FailedCycleWritesNothing ==
  [][/\ (pc \in {"cycle", "save"} /\ error' # NoError)
          => (store' = store /\ pc' = "terminated" /\ TotalRows' = cycle' - 1)
     /\ pc = "terminated" => UNCHANGED <<pc, cycle, store, httpCount>>]_vars

C7_Witness ==
  /\ pc = "terminated"
  /\ cycle = 2
  /\ error.type = "OperationalError"
  /\ TotalRows = 1

C9_BadNameFailsBeforeIO ==
  [][(pc = "start" /\ pc' # "start" /\ constructions' = constructions + 1
        /\ ~endswith(env.DB_NAME, ext))
       => /\ error'.type = "ValueError"
          /\ Len(conns') = Len(conns)
          /\ schemaRuns' = schemaRuns
          /\ httpCount' = httpCount]_vars

\* C10: whenever the poll loop is about to call Database.insert, the
\* connection of App.database is open.
C10_InsertOnOpenConnection ==
  pc = "save" => conns[db.conn].open

====
